---- MODULE Spec2Model ----
(***************************************************************************)
(* Model of src/attendance_app.py: a Streamlit attendance dashboard over a *)
(* Firestore document store.  The store's collections, the roster cache    *)
(* and the browser sessions are the state; each button handler is one      *)
(* action.  Text values are sequences of one-character strings so that the *)
(* code's normalisations (strip, upper, lower, replace) are computed.      *)
(***************************************************************************)
EXTENDS Integers, Sequences, FiniteSets, TLC

VARIABLES
    Courses,            \* collection 'Courses': document id -> fields
    Users,              \* collection 'Users': document id -> fields
    Students,           \* collection 'Students': usn -> fields
    Student_Summaries,  \* collection 'Student_Summaries': usn -> (field name -> value)
    Class_Sessions,     \* collection 'Class_Sessions': session id -> fields
    cache,              \* st.cache_data of get_students_cached: class key -> roster
    run,                \* the faculty script runs in flight, one per faculty browser session
    auth_user,          \* st.session_state['auth_user'], one per browser session
    ui,                 \* what the last script run showed: kind of message, escaped exception
    papers,             \* question papers: (subject, exam) -> workflow status
    attain              \* attainment calculator: inputs and last result

vars == <<Courses, Users, Students, Student_Summaries, Class_Sessions, cache, run,
          auth_user, ui, papers, attain>>

dbvars == <<Courses, Users, Students, Student_Summaries, Class_Sessions>>

(***************************************************************************)
(* Text helpers: Python's str methods on sequences of characters.          *)
(***************************************************************************)
LowerChars == <<"a","b","c","d","e","f","g","h","i","j","k","l","m",
                "n","o","p","q","r","s","t","u","v","w","x","y","z">>

UpperChars == <<"A","B","C","D","E","F","G","H","I","J","K","L","M",
                "N","O","P","Q","R","S","T","U","V","W","X","Y","Z">>

Digits == {"0","1","2","3","4","5","6","7","8","9"}

Letters == {LowerChars[i] : i \in 1..26} \cup {UpperChars[i] : i \in 1..26}

\* str.upper() and str.lower() on the letters; other characters are kept
UpperOf == [c \in Letters |->
               IF \E i \in 1..26 : LowerChars[i] = c
               THEN UpperChars[CHOOSE i \in 1..26 : LowerChars[i] = c] ELSE c]

LowerOf == [c \in Letters |->
               IF \E i \in 1..26 : UpperChars[i] = c
               THEN LowerChars[CHOOSE i \in 1..26 : UpperChars[i] = c] ELSE c]

UpperChar(c) == IF c \in Letters THEN UpperOf[c] ELSE c

LowerChar(c) == IF c \in Letters THEN LowerOf[c] ELSE c

IsAlnum(c) == c \in Letters \/ c \in Digits

Upper(s) == [i \in 1..Len(s) |-> UpperChar(s[i])]

Lower(s) == [i \in 1..Len(s) |-> LowerChar(s[i])]

RECURSIVE LStrip(_, _)
LStrip(s, c) == IF s # <<>> /\ Head(s) = c THEN LStrip(Tail(s), c) ELSE s

RECURSIVE RStrip(_, _)
RStrip(s, c) ==
    IF s # <<>> /\ s[Len(s)] = c THEN RStrip(SubSeq(s, 1, Len(s) - 1), c) ELSE s

\* str.strip(): leading and trailing blanks removed
Strip(s) == RStrip(LStrip(s, " "), " ")

\* str.strip('.')
StripDots(s) == RStrip(LStrip(s, "."), ".")

\* str.replace(a, b) for one-character a and b
Replace(s, a, b) == [i \in 1..Len(s) |-> IF s[i] = a THEN b ELSE s[i]]

\* str.replace(a, "")
Remove(s, a) == SelectSeq(s, LAMBDA c : c # a)

\* re.sub(r'\.+', '.', s)
RECURSIVE SqueezeDots(_)
SqueezeDots(s) ==
    IF Len(s) < 2 THEN s
    ELSE IF s[1] = "." /\ s[2] = "." THEN SqueezeDots(Tail(s))
    ELSE <<s[1]>> \o SqueezeDots(Tail(s))

sanitize_key(val) ==
    IF val = <<>> THEN <<>>
    ELSE Remove(Replace(Replace(Upper(Strip(val)), ".", "_"), "/", "_"), " ")

AmcDomain == <<"@","a","m","c",".","e","d","u">>

generate_email(name, existing_email) ==
    LET val == Lower(Strip(existing_email))
        dotted == [i \in 1..Len(Lower(Strip(name))) |->
                      IF IsAlnum(Lower(Strip(name))[i]) THEN Lower(Strip(name))[i] ELSE "."]
        clean_name == StripDots(SqueezeDots(dotted))
    IN  IF val # <<>> /\ val \notin {<<"n","a","n">>, <<"n","o","n","e">>}
        THEN val
        ELSE clean_name \o AmcDomain

(***************************************************************************)
(* The document store.  A collection is a function from the ids of the     *)
(* documents that exist to their fields.                                   *)
(***************************************************************************)
Exists(coll, id) == id \in DOMAIN coll

\* DocumentReference.set(data): create or replace the whole document
SetDoc(coll, id, data) == [k \in DOMAIN coll \cup {id} |-> IF k = id THEN data ELSE coll[k]]

\* DocumentReference.delete(): no error when the document is missing
DeleteDoc(coll, id) == [k \in DOMAIN coll \ {id} |-> coll[k]]

\* firestore.Increment(n) in a write: a server-side transform of the stored value
Increment(n) == [inc |-> n]

IsIncrement(v) == DOMAIN v = {"inc"}

\* the increment written as a plain value: the stored count is replaced
MergeFieldOverwrites(doc, f, v) == IF IsIncrement(v) THEN v.inc ELSE v.val

\* one field of a merge write, applied to the stored document
MergeField(doc, f, v) ==
    IF IsIncrement(v)
    THEN (IF f \in DOMAIN doc THEN doc[f] + v.inc ELSE v.inc)
    ELSE v.val

\* DocumentReference.set(data, merge=True): the fields named are written, the
\* others kept; the document is created when it does not exist
SetMerge(coll, id, data) ==
    LET old == IF id \in DOMAIN coll THEN coll[id] ELSE <<>>
        new == [f \in DOMAIN old \cup DOMAIN data |->
                   IF f \in DOMAIN data THEN MergeField(old, f, data[f]) ELSE old[f]]
    IN  SetDoc(coll, id, new)

Val(v) == [val |-> v]

(***************************************************************************)
(* Text constants of the program.                                          *)
(***************************************************************************)
t_usn == <<"u","s","n">>
t_sec == <<"s","e","c">>
t_section == <<"s","e","c","t","i","o","n">>
t_semester == <<"s","e","m","e","s","t","e","r">>
t_sem == <<"s","e","m">>
t_academic == <<"a","c","a","d","e","m","i","c">>
t_ay == <<"a","y">>
t_dept == <<"d","e","p","t">>
t_email == <<"e","m","a","i","l">>
t_mail == <<"m","a","i","l">>
t_facultyemail == <<"f","a","c","u","l","t","y","e","m","a","i","l">>
t_sub == <<"s","u","b">>
t_code == <<"c","o","d","e">>
t_subcode == <<"s","u","b","c","o","d","e">>
t_subtitle == <<"s","u","b","t","i","t","l","e">>
t_faculty == <<"f","a","c","u","l","t","y">>
t_fac == <<"f","a","c">>
t_facultyname == <<"f","a","c","u","l","t","y","n","a","m","e">>
t_total == <<"t","o","t","a","l">>
t_attended == <<"a","t","t","e","n","d","e","d">>
t_title == <<"t","i","t","l","e">>
t_ECE == <<"E","C","E">>
t_Faculty == <<"F","a","c","u","l","t","y">>
t_Admin == <<"A","d","m","i","n">>
t_admin == <<"a","d","m","i","n">>
t_admin123 == <<"a","d","m","i","n","1","2","3">>
t_password123 == <<"p","a","s","s","w","o","r","d","1","2","3">>
t_default_ay == <<"2","0","2","5","_","2","6">>
t_3 == <<"3">>
t_A == <<"A">>

\* f"{a}_{b}"
Und(a, b) == a \o <<"_">> \o b

\* f"{code}.{field}": a field name of a Student_Summaries document
Dot(code, field) == code \o <<".">> \o field

(***************************************************************************)
(* Uploaded CSV files: df.cols are the header cells as typed, df.rows the  *)
(* rows, each a sequence of cells aligned with the header.                 *)
(***************************************************************************)
\* str(c).strip().lower().replace(" ", "").replace("_", "")
NormCol(c) == Remove(Remove(Lower(Strip(c)), " "), "_")

courses_rename(c) ==
    CASE c = t_email -> t_facultyemail
      [] c = t_mail -> t_facultyemail
      [] c = t_sub -> t_subcode
      [] c = t_code -> t_subcode
      [] c = t_faculty -> t_facultyname
      [] c = t_fac -> t_facultyname
      [] c = t_sec -> t_section
      [] c = t_semester -> t_sem
      [] OTHER -> c

students_rename(c) ==
    CASE c = t_sec -> t_section
      [] c = t_semester -> t_sem
      [] c = t_academic -> t_ay
      [] OTHER -> c

CoursesColumns(df) == [i \in 1..Len(df.cols) |-> courses_rename(NormCol(df.cols[i]))]

StudentsColumns(df) == [i \in 1..Len(df.cols) |-> students_rename(NormCol(df.cols[i]))]

HasColumn(cols, name) == \E i \in 1..Len(cols) : cols[i] = name

\* row.get(name, default)
Cell(cols, row, name, default) ==
    IF HasColumn(cols, name)
    THEN row[CHOOSE i \in 1..Len(cols) : cols[i] = name]
    ELSE default

\* process_students_csv groups the course documents under f"{dept}_{sem}_{section}"
course_map_csv(k) ==
    {c \in DOMAIN Courses :
        Und(Und(Courses[c].dept, Courses[c].sem), Courses[c].section) = k}

\* admin_force_sync groups them under the same key, stripped and upper-cased
course_map_sync(k) ==
    {c \in DOMAIN Courses :
        Und(Und(Upper(Strip(Courses[c].dept)), Strip(Courses[c].sem)),
            Upper(Strip(Courses[c].section))) = k}

\* the same dict with the counters written as plain zeros: a stored count is replaced
SummaryUpdatesReset(cids) ==
    LET codes == {sanitize_key(Courses[c].subcode) : c \in cids}
        names == UNION {{Dot(code, t_title), Dot(code, t_total), Dot(code, t_attended)} :
                          code \in codes}
        CourseOf(f) == CHOOSE c \in cids :
                          f = Dot(sanitize_key(Courses[c].subcode), t_title)
    IN  [f \in names |->
            IF \E c \in cids : f = Dot(sanitize_key(Courses[c].subcode), t_title)
            THEN Val(Courses[CourseOf(f)].subtitle)
            ELSE Val(0)]

\* the dict 'updates' both build for one student from the courses of the class:
\* title set, counters incremented by 0 (created at 0, kept when they exist)
SummaryUpdates(cids) ==
    LET codes == {sanitize_key(Courses[c].subcode) : c \in cids}
        names == UNION {{Dot(code, t_title), Dot(code, t_total), Dot(code, t_attended)} :
                          code \in codes}
        CourseOf(f) == CHOOSE c \in cids :
                          f = Dot(sanitize_key(Courses[c].subcode), t_title)
    IN  [f \in names |->
            IF \E c \in cids : f = Dot(sanitize_key(Courses[c].subcode), t_title)
            THEN Val(Courses[CourseOf(f)].subtitle)
            ELSE Increment(0)]

(***************************************************************************)
(* process_courses_csv: one Courses document and one Users document (merge)*)
(* per row that has a subject code.  The rows are below the 200-row chunk, *)
(* so the batch is committed once, at the end.                             *)
(***************************************************************************)
CourseRowWrites(cols, row, acc) ==
    LET raw_code == Cell(cols, row, t_subcode, <<>>)
        subcode == sanitize_key(raw_code)
        ay == Strip(Cell(cols, row, t_ay, t_default_ay))
        dept == Strip(Upper(Cell(cols, row, t_dept, t_ECE)))
        sem == Strip(Cell(cols, row, t_sem, t_3))
        section == Strip(Upper(Cell(cols, row, t_section, t_A)))
        fname == Strip(Cell(cols, row, t_facultyname, t_Faculty))
        femail == generate_email(fname, Cell(cols, row, t_facultyemail, <<>>))
        cid == Und(Und(Und(Und(ay, dept), sem), section), subcode)
    IN  IF raw_code = <<>> THEN acc
        ELSE [courses |-> SetDoc(acc.courses, cid,
                            [ay |-> ay, dept |-> dept, sem |-> sem, section |-> section,
                             subcode |-> subcode,
                             subtitle |-> Cell(cols, row, t_subtitle, subcode),
                             faculty_id |-> femail, faculty_name |-> fname]),
              users |-> SetMerge(acc.users, femail,
                            [name |-> Val(fname), role |-> Val(t_Faculty),
                             dept |-> Val(dept), password |-> Val(t_password123)]),
              count |-> acc.count + 1]

RECURSIVE CourseRows(_, _, _)
CourseRows(cols, rows, acc) ==
    IF rows = <<>> THEN acc
    ELSE CourseRows(cols, Tail(rows), CourseRowWrites(cols, Head(rows), acc))

\* the result of process_courses_csv(df): the count, the log's error line, the writes
process_courses_csv(df) ==
    LET cols == CoursesColumns(df)
        start == [courses |-> Courses, users |-> Users, count |-> 0]
    IN  IF ~HasColumn(cols, t_subcode)
        THEN [count |-> 0, error |-> TRUE, courses |-> Courses, users |-> Users]
        ELSE LET done == CourseRows(cols, df.rows, start)
             IN  [count |-> done.count, error |-> FALSE,
                  courses |-> done.courses, users |-> done.users]

(***************************************************************************)
(* process_students_csv: one Students document per row that has a USN, and *)
(* a merge of zero increments into the student's summary.                  *)
(***************************************************************************)
StudentRowWrites(cols, row, acc) ==
    LET raw_usn == Cell(cols, row, t_usn, <<>>)
        usn == sanitize_key(raw_usn)
        dept == Strip(Upper(Cell(cols, row, t_dept, t_ECE)))
        sem == Strip(Cell(cols, row, t_sem, t_3))
        sec == Strip(Upper(Cell(cols, row, t_section, t_A)))
        ay == Strip(Cell(cols, row, t_ay, t_default_ay))
        k == Und(Und(dept, sem), sec)
        updates == SummaryUpdates(course_map_csv(k))
    IN  IF raw_usn = <<>> THEN acc
        ELSE [students |-> SetDoc(acc.students, usn,
                              [dept |-> dept, sem |-> sem, section |-> sec, ay |-> ay]),
              summaries |-> IF course_map_csv(k) # {} /\ DOMAIN updates # {}
                            THEN SetMerge(acc.summaries, usn, updates)
                            ELSE acc.summaries,
              count |-> acc.count + 1]

RECURSIVE StudentRows(_, _, _)
StudentRows(cols, rows, acc) ==
    IF rows = <<>> THEN acc
    ELSE StudentRows(cols, Tail(rows), StudentRowWrites(cols, Head(rows), acc))

process_students_csv(df) ==
    LET cols == StudentsColumns(df)
        start == [students |-> Students, summaries |-> Student_Summaries, count |-> 0]
    IN  IF ~HasColumn(cols, t_usn) THEN start
        ELSE StudentRows(cols, df.rows, start)

(***************************************************************************)
(* admin_force_sync: for every student whose class has courses, a merge of *)
(* zero increments for each course of the class.                           *)
(***************************************************************************)
StudentClassKey(s_data) ==
    Und(Und(Upper(Strip(s_data.dept)), Strip(s_data.sem)), Upper(Strip(s_data.section)))

admin_force_sync ==
    LET synced == {u \in DOMAIN Students : course_map_sync(StudentClassKey(Students[u])) # {}}
    IN  [summaries |->
            [u \in DOMAIN Student_Summaries \cup synced |->
                IF u \in synced
                THEN SetMerge(Student_Summaries, u,
                              SummaryUpdates(course_map_sync(StudentClassKey(Students[u]))))[u]
                ELSE Student_Summaries[u]],
         updated |-> Cardinality(synced)]

(***************************************************************************)
(* Bounds and the inputs drawn from them.                                  *)
(***************************************************************************)
MaxRows == 1        \* rows of an uploaded CSV
NPeriods == 2       \* how many of the periods of the selectbox are used
NSessions == 2      \* faculty browser sessions that submit concurrently
NStudents == 1      \* USNs that uploads and forms name
NRoster == 2        \* students of the class that the concurrent sessions mark

FacultySessions == 1..NSessions

PeriodList == << <<"1">>, <<"2">>, <<"3">>, <<"4">>, <<"5">>, <<"6">>, <<"7">>,
                <<"L","a","b">> >>

Periods == {PeriodList[i] : i \in 1..NPeriods}

Dates == {<<"1","1","-","0","5">>}

RawUsnList == << <<"u","1">>, <<"U","2">>, <<"u","3">>, <<"U","4">> >>
RawUsns == {RawUsnList[i] : i \in 1..NStudents}
raw_ec1 == <<"e","c","1">>

\* header and rows of the students upload; the second header has no USN column
StudentsHeader == <<<<"U","S","N">>, <<"S","e","m">>, <<"S","e","c">>>>
StudentsHeaderNoUsn == <<<<"R","o","l","l">>, <<"S","e","m">>, <<"S","e","c">>>>
StudentRowSet == {<<u, <<"3">>, <<"a">>>> : u \in RawUsns}

StudentCSVs ==
    {[cols |-> h, rows |-> r] :
        h \in {StudentsHeader, StudentsHeaderNoUsn},
        r \in UNION {[1..n -> StudentRowSet] : n \in 1..MaxRows}}

\* header and rows of the courses upload; the second header has no subject-code
\* column; the third row has an empty subject code
CoursesHeader == <<<<"S","e","m">>, <<"S","e","c">>, <<"S","u","b","_","C","o","d","e">>,
                   <<"F","a","c","u","l","t","y">>>>
CoursesHeaderNoCode == <<<<"S","e","m">>, <<"S","e","c">>, <<"S","u","b","j","e","c","t">>,
                         <<"F","a","c","u","l","t","y">>>>
CourseRowSet == {<< <<"3">>, <<"a">>, raw_ec1, <<"R","a","o">> >>,
                 << <<"3">>, <<"a">>, <<>>, <<"R","a","o">> >>}

CourseCSVs ==
    {[cols |-> h, rows |-> r] :
        h \in {CoursesHeader, CoursesHeaderNoCode},
        r \in UNION {[1..n -> CourseRowSet] : n \in 1..MaxRows}}

(***************************************************************************)
(* What a script run shows: the kind of the last st.success / st.warning / *)
(* st.error it reached, and whether an exception left the handler uncaught.*)
(***************************************************************************)
Shown(kind) == [msg |-> kind, exc |-> FALSE]

Raised(kind) == [msg |-> kind, exc |-> TRUE]

Idle == [pc |-> "idle"]

(***************************************************************************)
(* The roster cache: get_students_cached under st.cache_data(ttl=60).      *)
(***************************************************************************)
StudentsQuery(dept, sem, section) ==
    {u \in DOMAIN Students :
        /\ Students[u].dept = Upper(Strip(dept))
        /\ Students[u].sem = Strip(sem)
        /\ Students[u].section = Upper(Strip(section))}

\* the value returned: the cached entry when there is one, the query otherwise
get_students_cached(dept, sem, section) ==
    IF <<dept, sem, section>> \in DOMAIN cache
    THEN cache[<<dept, sem, section>>]
    ELSE StudentsQuery(dept, sem, section)

\* the cache after the call
CacheAfter(dept, sem, section) ==
    IF <<dept, sem, section>> \in DOMAIN cache
    THEN cache
    ELSE SetDoc(cache, <<dept, sem, section>>, StudentsQuery(dept, sem, section))

\* an entry older than the ttl is dropped
CacheExpire ==
    /\ \E k \in DOMAIN cache : cache' = DeleteDoc(cache, k)
    /\ UNCHANGED <<dbvars, run, auth_user, ui, papers, attain>>

(***************************************************************************)
(* Admin dashboard handlers.                                               *)
(***************************************************************************)
\* "Process Courses": the count is shown as a success, the log is not shown
ProcessCoursesOf(df) ==
    /\ Courses' = process_courses_csv(df).courses
    /\ Users' = process_courses_csv(df).users
    /\ ui' = Shown("success")
    /\ UNCHANGED <<Students, Student_Summaries, Class_Sessions, cache, run, auth_user,
                   papers, attain>>

ProcessCourses == \E df \in CourseCSVs : ProcessCoursesOf(df)

\* "Process Students": the count is shown as a success
ProcessStudentsOf(df) ==
    /\ Students' = process_students_csv(df).students
    /\ Student_Summaries' = process_students_csv(df).summaries
    /\ ui' = Shown("success")
    /\ UNCHANGED <<Courses, Users, Class_Sessions, cache, run, auth_user, papers, attain>>

ProcessStudents == \E df \in StudentCSVs : ProcessStudentsOf(df)

\* "Sync/Fix All"
AdminForceSync ==
    /\ Student_Summaries' = admin_force_sync.summaries
    /\ ui' = Shown("success")
    /\ UNCHANGED <<Courses, Users, Students, Class_Sessions, cache, run, auth_user,
                   papers, attain>>

\* "Add" of the manual student form
ManualAddWrites(m_usn, m_dept, m_sem, m_sec) ==
    LET cids == {c \in DOMAIN Courses : /\ Courses[c].dept = m_dept
                                        /\ Courses[c].sem = m_sem
                                        /\ Courses[c].section = m_sec}
        codes == {sanitize_key(Courses[c].subcode) : c \in cids}
        updates == [f \in UNION {{Dot(k, t_total), Dot(k, t_attended)} : k \in codes}
                      |-> Increment(0)]
    IN  [students |-> SetDoc(Students, m_usn,
                             [dept |-> m_dept, sem |-> m_sem, section |-> m_sec,
                              ay |-> t_default_ay]),
         summaries |-> IF DOMAIN updates # {}
                       THEN SetMerge(Student_Summaries, m_usn, updates)
                       ELSE Student_Summaries]

AddStudentManual ==
    /\ \E usn \in RawUsns :
          LET w == ManualAddWrites(Upper(usn), t_ECE, t_3, Upper(<<"a">>))
          IN  /\ Students' = w.students
              /\ Student_Summaries' = w.summaries
    /\ ui' = Shown("success")
    /\ UNCHANGED <<Courses, Users, Class_Sessions, cache, run, auth_user, papers, attain>>

\* "Permanently Delete" of a student found by the search
DeleteStudent ==
    /\ \E raw \in RawUsns :
          LET s_in == Upper(Strip(raw))
          IN  /\ s_in # <<>>
              /\ Exists(Students, s_in)
              /\ Students' = DeleteDoc(Students, s_in)
              /\ Student_Summaries' = DeleteDoc(Student_Summaries, s_in)
    /\ ui' = Shown("success")
    /\ UNCHANGED <<Courses, Users, Class_Sessions, cache, run, auth_user, papers, attain>>

\* "Generate Consolidated Report": reads the roster through the cache
GenerateReport ==
    /\ cache' = CacheAfter(t_ECE, t_3, t_A)
    /\ ui' = IF get_students_cached(t_ECE, t_3, t_A) = {}
             THEN Shown("warning") ELSE Shown("success")
    /\ UNCHANGED <<dbvars, run, auth_user, papers, attain>>

(***************************************************************************)
(* Faculty dashboard, attendance tab.  The script run in which Submit is   *)
(* pressed reads the session log and the roster, builds the batch and then *)
(* commits it; other sessions act between the reads and the commit.        *)
(***************************************************************************)
\* a key that also depends on how many logs are stored, as an auto-generated id would
SessionIdPerSubmission(date_val, course, period_val) ==
    Und(Und(Und(Und(date_val, course.subcode), course.section), period_val),
        [i \in 1..Cardinality(DOMAIN Class_Sessions) |-> "x"])

SessionId(date_val, course, period_val) ==
    Und(Und(Und(date_val, course.subcode), course.section), period_val)

\* the reads of the run and the batch it builds
SubmitRead(p, c, date_val, period_val, unlock, absent) ==
    LET course == Courses[c]
        session_id == SessionId(date_val, course, period_val)
        already_marked == Exists(Class_Sessions, session_id)
        s_list == get_students_cached(course.dept, course.sem, course.section)
    IN  /\ run[p].pc # "commit"
        /\ IF already_marked /\ ~unlock
           THEN /\ ui' = Shown("error")
                /\ run' = [run EXCEPT ![p] = Idle]
                /\ UNCHANGED cache
           ELSE /\ cache' = CacheAfter(course.dept, course.sem, course.section)
                /\ IF s_list = {}
                   THEN /\ run' = [run EXCEPT ![p] = Idle]
                        /\ ui' = IF already_marked THEN Shown("error") ELSE Shown("none")
                   ELSE /\ absent \subseteq s_list
                        /\ run' = [run EXCEPT ![p] =
                               [pc |-> "commit", session_id |-> session_id,
                                already_marked |-> already_marked, s_list |-> s_list,
                                absentees |-> absent, course |-> course,
                                date |-> date_val, period |-> period_val]]
                        /\ ui' = IF already_marked THEN Shown("warning")
                                 ELSE Shown("success")
        /\ UNCHANGED <<dbvars, auth_user, papers, attain>>

\* the two counters swapped: attended counts every class, total the classes attended
StudentWritesSwapped(summaries, r, usn) ==
    LET sub_key == sanitize_key(r.course.subcode)
        first == SetMerge(summaries, usn,
                     (Dot(sub_key, t_title) :> Val(r.course.subtitle))
                       @@ (Dot(sub_key, t_attended) :> Increment(1)))
    IN  IF usn \notin r.absentees
        THEN SetMerge(first, usn, Dot(sub_key, t_total) :> Increment(1))
        ELSE first

\* the writes of the batch to one student's summary, in the order they were added
StudentWrites(summaries, r, usn) ==
    LET sub_key == sanitize_key(r.course.subcode)
        first == SetMerge(summaries, usn,
                     (Dot(sub_key, t_title) :> Val(r.course.subtitle))
                       @@ (Dot(sub_key, t_total) :> Increment(1)))
    IN  IF usn \notin r.absentees
        THEN SetMerge(first, usn, Dot(sub_key, t_attended) :> Increment(1))
        ELSE first

RECURSIVE RosterWrites(_, _, _)
RosterWrites(summaries, r, todo) ==
    IF todo = {} THEN summaries
    ELSE LET usn == CHOOSE u \in todo : TRUE
         IN  RosterWrites(StudentWrites(summaries, r, usn), r, todo \ {usn})

\* the counters incremented whether or not the session was already marked
BatchSummariesAlways(r) == RosterWrites(Student_Summaries, r, r.s_list)

\* the summaries after the batch of run r
BatchSummaries(r) ==
    IF ~r.already_marked
    THEN RosterWrites(Student_Summaries, r, r.s_list)
    ELSE Student_Summaries

\* the session log the batch writes (the timestamp is left out)
SessionLog(r) ==
    [course_code |-> r.course.subcode, date |-> r.date, period |-> r.period,
     faculty_id |-> r.course.faculty_id, faculty_name |-> r.course.faculty_name,
     total_students |-> Cardinality(r.s_list), absentees |-> r.absentees]

\* batch.commit(): all the writes of the batch, atomically
SubmitCommit(p) ==
    /\ run[p].pc = "commit"
    /\ Class_Sessions' = SetDoc(Class_Sessions, run[p].session_id, SessionLog(run[p]))
    /\ Student_Summaries' = BatchSummaries(run[p])
    /\ run' = [run EXCEPT ![p].pc = "done"]
    /\ UNCHANGED <<Courses, Users, Students, cache, auth_user, ui, papers, attain>>

(***************************************************************************)
(* Store failures.  A call on the store raises; only the sign-in lookup is *)
(* inside a try block, every other handler lets the exception leave.       *)
(***************************************************************************)
\* batch.commit() raises: nothing is written, after st.success was shown
SubmitCommitFails(p) ==
    /\ run[p].pc = "commit"
    /\ run' = [run EXCEPT ![p] = Idle]
    /\ ui' = Raised(ui.msg)
    /\ UNCHANGED <<dbvars, cache, auth_user, papers, attain>>

\* the store raises in process_courses_csv, process_students_csv,
\* admin_force_sync or a report query: nothing is written
AdminCallFails ==
    /\ ui' = Raised("none")
    /\ UNCHANGED <<dbvars, cache, run, auth_user, papers, attain>>

\* the second delete raises after the first one was applied
DeleteStudentFails ==
    /\ \E raw \in RawUsns :
          LET s_in == Upper(Strip(raw))
          IN  /\ Exists(Students, s_in)
              /\ Students' = DeleteDoc(Students, s_in)
    /\ ui' = Raised("none")
    /\ UNCHANGED <<Courses, Users, Student_Summaries, Class_Sessions, cache, run,
                   auth_user, papers, attain>>

(***************************************************************************)
(* The attendance store under the admin's and one faculty session's use.   *)
(***************************************************************************)
NoPapers == <<>>
NoAttain == [pc |-> "off"]

Init ==
    /\ Courses = <<>>
    /\ Users = <<>>
    /\ Students = <<>>
    /\ Student_Summaries = <<>>
    /\ Class_Sessions = <<>>
    /\ cache = <<>>
    /\ run = [p \in FacultySessions |-> Idle]
    /\ auth_user = <<>>
    /\ ui = Shown("none")
    /\ papers = NoPapers
    /\ attain = NoAttain

Submit ==
    \E c \in DOMAIN Courses, date_val \in Dates, period_val \in Periods,
       unlock \in BOOLEAN :
        \E absent \in SUBSET get_students_cached(Courses[c].dept, Courses[c].sem,
                                                 Courses[c].section) :
            SubmitRead(1, c, date_val, period_val, unlock, absent)

Next ==
    \/ ProcessCourses
    \/ ProcessStudents
    \/ AdminForceSync
    \/ AddStudentManual
    \/ DeleteStudent
    \/ GenerateReport
    \/ CacheExpire
    \/ Submit
    \/ SubmitCommit(1)
    \/ SubmitCommitFails(1)
    \/ AdminCallFails
    \/ DeleteStudentFails

Spec == Init /\ [][Next]_vars

(***************************************************************************)
(* Several faculty sessions marking one class at the same time.  The store *)
(* is the one left by a courses upload and a students upload; each session *)
(* makes one submission and keeps its page open.                           *)
(***************************************************************************)
ConcCourses == << << <<"3">>, <<"a">>, raw_ec1, <<"R","a","o">> >> >>

ConcStudents == [i \in 1..NRoster |-> <<RawUsnList[i], <<"3">>, <<"a">>>>]

InitConc ==
    /\ Courses = CourseRows(CoursesColumns([cols |-> CoursesHeader]), ConcCourses,
                            [courses |-> <<>>, users |-> <<>>, count |-> 0]).courses
    /\ Users = CourseRows(CoursesColumns([cols |-> CoursesHeader]), ConcCourses,
                          [courses |-> <<>>, users |-> <<>>, count |-> 0]).users
    /\ Students = StudentRows(StudentsColumns([cols |-> StudentsHeader]), ConcStudents,
                      [students |-> <<>>, summaries |-> <<>>, count |-> 0]).students
    /\ Student_Summaries =
           StudentRows(StudentsColumns([cols |-> StudentsHeader]), ConcStudents,
               [students |-> <<>>, summaries |-> <<>>, count |-> 0]).summaries
    /\ Class_Sessions = <<>>
    /\ cache = <<>>
    /\ run = [p \in FacultySessions |-> Idle]
    /\ auth_user = <<>>
    /\ ui = Shown("none")
    /\ papers = NoPapers
    /\ attain = NoAttain

SubmitOnce ==
    \E p \in FacultySessions, c \in DOMAIN Courses, date_val \in Dates,
       period_val \in Periods, unlock \in BOOLEAN :
        \E absent \in SUBSET get_students_cached(Courses[c].dept, Courses[c].sem,
                                                 Courses[c].section) :
            /\ run[p].pc = "idle"
            /\ SubmitRead(p, c, date_val, period_val, unlock, absent)

CommitAny == \E p \in FacultySessions : SubmitCommit(p)

NextConc ==
    \/ SubmitOnce
    \/ CommitAny

SpecConc == InitConc /\ [][NextConc]_vars

(***************************************************************************)
(* Sign-in and the role gate of main(), with the handlers that write Users.*)
(***************************************************************************)
NBrowsers == 2      \* browser sessions that sign in and out

Browsers == 1..NBrowsers

None == [id |-> <<>>]

AdminUser == [id |-> t_admin, name |-> t_Admin, role |-> t_Admin]

t_kx == <<"K","@","x">>
t_secret == <<"s","3">>
\* the address generate_email gives the faculty name of the uploaded course rows
t_rao_mail == <<"r","a","o","@","a","m","c",".","e","d","u">>

\* what is typed into "Email/ID" and "Password"
TypedIds == {<<>>, t_admin, <<" ">> \o t_kx, <<"r","a","o","@","a","m","c",".","e","d","u">>,
             <<"z">>}
TypedPasswords == {<<>>, t_admin123, t_password123, t_secret \o <<" ">>}

\* the "Smart Search": the first of uid.lower(), sanitize_key(uid), uid that is a
\* Users document
Candidates(uid) == <<Lower(uid), sanitize_key(uid), uid>>

HasTarget(uid) == \E i \in 1..3 : Exists(Users, Candidates(uid)[i])

final_id(uid) ==
    Candidates(uid)[CHOOSE i \in 1..3 :
        /\ Exists(Users, Candidates(uid)[i])
        /\ \A j \in 1..(i - 1) : ~Exists(Users, Candidates(uid)[j])]

\* any password is accepted
PasswordAlwaysMatches(user_data, pwd) == TRUE

\* user_data.get('password') == pwd
PasswordMatches(user_data, pwd) ==
    "password" \in DOMAIN user_data /\ user_data.password = pwd

\* {**user_data, "id": final_id}
SignedIn(user_data, id) ==
    [f \in DOMAIN user_data \cup {"id"} |-> IF f = "id" THEN id ELSE user_data[f]]

\* "Sign In" with the two text inputs as typed
SignInOf(b, typed_id, typed_pwd) ==
    LET uid == Strip(typed_id)
        pwd == Strip(typed_pwd)
    IN  /\ auth_user[b] = None
        /\ IF uid = <<>>
           THEN /\ ui' = Shown("warning")
                /\ UNCHANGED auth_user
           ELSE IF uid = t_admin /\ pwd = t_admin123
           THEN /\ auth_user' = [auth_user EXCEPT ![b] = AdminUser]
                /\ UNCHANGED ui
           ELSE IF HasTarget(uid) /\ PasswordMatches(Users[final_id(uid)], pwd)
           THEN /\ auth_user' = [auth_user EXCEPT
                                    ![b] = SignedIn(Users[final_id(uid)], final_id(uid))]
                /\ ui' = Shown("success")
           ELSE /\ ui' = Shown("error")
                /\ UNCHANGED auth_user
        /\ UNCHANGED <<dbvars, cache, run, papers, attain>>

SignIn == \E b \in Browsers, typed_id \in TypedIds, typed_pwd \in TypedPasswords :
              SignInOf(b, typed_id, typed_pwd)

\* a Users lookup raises inside the try block: st.error(f"System Error: {e}")
SignInFails ==
    /\ \E b \in Browsers, typed_id \in TypedIds, typed_pwd \in TypedPasswords :
          /\ auth_user[b] = None
          /\ Strip(typed_id) # <<>>
          /\ ~(Strip(typed_id) = t_admin /\ Strip(typed_pwd) = t_admin123)
    /\ ui' = Shown("error")
    /\ UNCHANGED <<dbvars, cache, run, auth_user, papers, attain>>

Logout ==
    /\ \E b \in Browsers :
          /\ auth_user[b] # None
          /\ auth_user' = [auth_user EXCEPT ![b] = None]
    /\ UNCHANGED <<dbvars, cache, run, ui, papers, attain>>

\* main() shows the admin dashboard to a session whose user has the role Admin
AdminSignedIn == \E b \in Browsers : auth_user[b] # None /\ auth_user[b].role = t_Admin

\* "Create" of the add-faculty form
CreateFaculty ==
    /\ AdminSignedIn
    /\ \E n_email \in {t_kx, <<" ">>, t_rao_mail}, n_pass \in {t_secret, <<>>} :
          LET clean_email == Lower(Strip(n_email))
          IN  IF clean_email # <<>>
              THEN /\ Users' = SetDoc(Users, clean_email,
                                  [name |-> <<"K">>, role |-> t_Faculty, dept |-> t_ECE,
                                   password |-> n_pass])
                   /\ ui' = Shown("success")
              ELSE /\ ui' = Shown("error")
                   /\ UNCHANGED Users
    /\ UNCHANGED <<Courses, Students, Student_Summaries, Class_Sessions, cache, run,
                   auth_user, papers, attain>>

AdminProcessCourses == AdminSignedIn /\ ProcessCourses

InitAuth ==
    /\ Courses = <<>>
    /\ Users = <<>>
    /\ Students = <<>>
    /\ Student_Summaries = <<>>
    /\ Class_Sessions = <<>>
    /\ cache = <<>>
    /\ run = [p \in FacultySessions |-> Idle]
    /\ auth_user = [b \in Browsers |-> None]
    /\ ui = Shown("none")
    /\ papers = NoPapers
    /\ attain = NoAttain

NextAuth ==
    \/ SignIn
    \/ SignInFails
    \/ Logout
    \/ CreateFaculty
    \/ AdminProcessCourses

SpecAuth == InitAuth /\ [][NextAuth]_vars

(***************************************************************************)
(* Question-paper workflow (design document, data model): a paper is keyed *)
(* by subject and exam and moves Draft -> Submitted -> Approved.           *)
(***************************************************************************)
NPapers == 3        \* question papers (subject, exam) that are created

PaperKeyList == << <<"EC1", "IA1">>, <<"EC1", "IA2">>, <<"EC2", "IA1">>, <<"EC2", "IA2">>,
                   <<"EC3", "IA1">> >>

PaperKeys == {PaperKeyList[i] : i \in 1..NPapers}

\* a pattern entry: question id -> marks and mapped course outcome
PatternA == [Q1 |-> [marks |-> 10, co |-> "CO1"], Q2 |-> [marks |-> 10, co |-> "CO2"]]
PatternB == [Q1 |-> [marks |-> 10, co |-> "CO2"]]

\* the faculty saves a paper: it is created as a Draft, and edited while a Draft
SaveDraft ==
    /\ \E k \in PaperKeys, pat \in {PatternA, PatternB} :
          /\ k \in DOMAIN papers => papers[k].status = "Draft"
          /\ papers' = SetDoc(papers, k, [status |-> "Draft", pattern |-> pat])
    /\ UNCHANGED <<dbvars, cache, run, auth_user, ui, attain>>

\* approval from any status
CanApproveAny(paper) == TRUE

\* the reviewer approves a paper that was submitted
CanApprove(paper) == paper.status = "Submitted"

SubmitPaper ==
    /\ \E k \in DOMAIN papers :
          /\ papers[k].status = "Draft"
          /\ papers' = [papers EXCEPT ![k].status = "Submitted"]
    /\ UNCHANGED <<dbvars, cache, run, auth_user, ui, attain>>

ApprovePaper ==
    /\ \E k \in DOMAIN papers :
          /\ CanApprove(papers[k])
          /\ papers[k].status # "Approved"
          /\ papers' = [papers EXCEPT ![k].status = "Approved"]
    /\ UNCHANGED <<dbvars, cache, run, auth_user, ui, attain>>

InitQP ==
    /\ Courses = <<>>
    /\ Users = <<>>
    /\ Students = <<>>
    /\ Student_Summaries = <<>>
    /\ Class_Sessions = <<>>
    /\ cache = <<>>
    /\ run = [p \in FacultySessions |-> Idle]
    /\ auth_user = <<>>
    /\ ui = Shown("none")
    /\ papers = NoPapers
    /\ attain = NoAttain

NextQP ==
    \/ SaveDraft
    \/ SubmitPaper
    \/ ApprovePaper

SpecQP == InitQP /\ [][NextQP]_vars

(***************************************************************************)
(* Attainment calculator (design document, component design): course-      *)
(* outcome levels from the marks of one subject and the approved question  *)
(* paper, program-outcome scores from the CO-PO mapping.                   *)
(***************************************************************************)
NMarkStudents == 3  \* students with a mark record for the exam

MarkStudents == 1..NMarkStudents

COs == {"CO1", "CO2", "CO3", "CO4", "CO5", "CO6"}

POs == {"PO1", "PO2", "PO3"}

PassPercent == 60   \* a student attains a CO at 60% of its maximum
Level3Percent == 70
Level2Percent == 60
Level1Percent == 50

\* CO-PO mapping of the subject: weight of each CO against each PO (0 when missing)
Mapping == [PO1 |-> [CO1 |-> 3], PO2 |-> [CO1 |-> 1, CO2 |-> 2], PO3 |-> <<>>]

Weight(mapping, po, co) ==
    IF po \in DOMAIN mapping /\ co \in DOMAIN mapping[po] THEN mapping[po][co] ELSE 0

\* an unmatched question counted under CO1 with a maximum of 10
LookupOrDefault(pattern, qid) ==
    IF qid \in DOMAIN pattern THEN {pattern[qid]} ELSE {[marks |-> 10, co |-> "CO1"]}

\* the pattern entry of a question id; none when the id is not in the pattern
Lookup(pattern, qid) == IF qid \in DOMAIN pattern THEN {pattern[qid]} ELSE {}

RECURSIVE SumOver(_, _, _)
\* the sum of f[q] over the question ids qs
SumOver(qs, f, g) ==
    IF qs = {} THEN 0
    ELSE LET q == CHOOSE x \in qs : TRUE
         IN  (IF g THEN f[q].obtained ELSE f[q].marks) + SumOver(qs \ {q}, f, g)

\* the accumulator of one student for one CO: obtained and maximum
Accumulate(record, pattern, co) ==
    LET hits == {q \in DOMAIN record :
                    \E e \in Lookup(pattern, q) : e.co = co}
        entry == [q \in hits |->
                    [obtained |-> record[q],
                     marks |-> (CHOOSE e \in Lookup(pattern, q) : TRUE).marks]]
    IN  [obtained |-> SumOver(hits, entry, TRUE), max |-> SumOver(hits, entry, FALSE)]

\* a student passes a CO at half of its maximum
PassesAtHalf(acc) == acc.obtained * 100 >= 50 * acc.max

\* a student scores at least 60% of the CO's maximum
Passes(acc) == acc.obtained * 100 >= PassPercent * acc.max

\* the level of a pass fraction passed / counted
LevelOf(passed, counted) ==
    IF passed * 100 >= Level3Percent * counted THEN 3
    ELSE IF passed * 100 >= Level2Percent * counted THEN 2
    ELSE IF passed * 100 >= Level1Percent * counted THEN 1
    ELSE 0

\* CO label -> level, for the COs that some student has a non-zero maximum for
COLevels(marks, pattern) ==
    LET counted(co) == {st \in DOMAIN marks : Accumulate(marks[st], pattern, co).max > 0}
        passed(co) == {st \in counted(co) : Passes(Accumulate(marks[st], pattern, co))}
    IN  [co \in {c \in COs : counted(c) # {}} |->
            LevelOf(Cardinality(passed(co)), Cardinality(counted(co)))]

RECURSIVE WeightedSum(_, _, _, _, _)
WeightedSum(cos, levels, mapping, po, withLevel) ==
    IF cos = {} THEN 0
    ELSE LET co == CHOOSE c \in cos : TRUE
         IN  (IF withLevel THEN levels[co] * Weight(mapping, po, co)
              ELSE Weight(mapping, po, co))
               + WeightedSum(cos \ {co}, levels, mapping, po, withLevel)

\* round(x, 2) of num / den, in hundredths, ties to the even hundredth
Round2(num, den) ==
    LET q == (100 * num) \div den
        r == (100 * num) % den
    IN  IF 2 * r > den \/ (2 * r = den /\ q % 2 = 1) THEN q + 1 ELSE q

\* PO label -> score in hundredths: the weighted average of the CO levels
POScores(levels, mapping) ==
    [po \in DOMAIN mapping |->
        LET total == WeightedSum(DOMAIN levels, levels, mapping, po, FALSE)
        IN  IF total = 0 THEN 0
            ELSE Round2(WeightedSum(DOMAIN levels, levels, mapping, po, TRUE), total)]

\* the result for one exam's mark records and its approved paper's pattern
\* (approved = FALSE: no paper of the exam is approved)
Attainment(marks, approved, pattern, mapping) ==
    IF DOMAIN marks = {}
    THEN [status |-> "no marks found"]
    ELSE IF ~approved
    THEN [status |-> "no approved question paper"]
    ELSE [status |-> "ok", co |-> COLevels(marks, pattern),
          po |-> POScores(COLevels(marks, pattern), mapping)]

\* the mark records drawn: a student has no record, or one with a score or nothing
\* for Q1 and Q2, and possibly a score under Q9, an id the pattern does not have
Q1Scores == {5, 6, 8}
Q2Scores == {4, 9}

MarkRecords ==
    {r1 @@ r2 @@ r9 :
        r1 \in {<<>>} \cup {[Q1 |-> x] : x \in Q1Scores},
        r2 \in {<<>>} \cup {[Q2 |-> x] : x \in Q2Scores},
        r9 \in {<<>>, [Q9 |-> 7]}}

InitAttain ==
    /\ Courses = <<>>
    /\ Users = <<>>
    /\ Students = <<>>
    /\ Student_Summaries = <<>>
    /\ Class_Sessions = <<>>
    /\ cache = <<>>
    /\ run = [p \in FacultySessions |-> Idle]
    /\ auth_user = <<>>
    /\ ui = Shown("none")
    /\ papers = NoPapers
    /\ \E marks \in UNION {[S -> MarkRecords] : S \in SUBSET MarkStudents},
          approved \in BOOLEAN :
          attain = [pc |-> "ready", marks |-> marks, approved |-> approved,
                    pattern |-> PatternA]

Calculate ==
    /\ attain.pc = "ready"
    /\ attain' = [pc |-> "done", marks |-> attain.marks, approved |-> attain.approved,
                  pattern |-> attain.pattern,
                  result |-> Attainment(attain.marks, attain.approved, attain.pattern,
                                        Mapping)]
    /\ UNCHANGED <<dbvars, cache, run, auth_user, ui, papers>>

NextAttain == Calculate

SpecAttain == InitAttain /\ [][NextAttain]_vars

(***************************************************************************)
(* Properties.                                                             *)
(***************************************************************************)
ec1_total == Dot(sanitize_key(raw_ec1), t_total)
ec1_attended == Dot(sanitize_key(raw_ec1), t_attended)

\* the session logs stored for one slot: date, subject and period
LogsOfSlot(d, code, per) ==
    {id \in DOMAIN Class_Sessions :
        /\ Class_Sessions[id].date = d
        /\ Class_Sessions[id].course_code = code
        /\ Class_Sessions[id].period = per}

\* the session logs stored for one subject
LogsOfSubject(code) == {id \in DOMAIN Class_Sessions : Class_Sessions[id].course_code = code}

\* C1: submitting a slot (date, section, subject, period) again in sequence writes
\* under the key of the first submission: the store never holds two logs for one
\* slot, and no student's total for the subject counts more classes than there are
\* logs of the subject.
C1_OneRecordPerSlot ==
    /\ \A d \in Dates, per \in Periods :
          Cardinality(LogsOfSlot(d, sanitize_key(raw_ec1), per)) <= 1
    /\ \A u \in DOMAIN Student_Summaries :
          ec1_total \in DOMAIN Student_Summaries[u] =>
              Student_Summaries[u][ec1_total]
                  <= Cardinality(LogsOfSubject(sanitize_key(raw_ec1)))

\* a second submission of a slot has been committed and the slot has one log
C1_Witness ==
    /\ run[1].pc = "done"
    /\ run[1].already_marked
    /\ Cardinality(LogsOfSlot(run[1].date, run[1].course.subcode, run[1].period)) = 1
    /\ Class_Sessions[run[1].session_id] = SessionLog(run[1])

\* C2: the commit of a run that found the session log (an overwrite after the
\* unlock) replaces the log and leaves every Student_Summaries counter as it was.
C2_OverwriteKeepsCounters ==
    [][\A p \in FacultySessions :
          (run[p].pc = "commit" /\ run[p].already_marked /\ run'[p].pc = "done")
              => Student_Summaries' = Student_Summaries]_vars

\* an overwrite was committed whose absentee list names a student whose counters
\* say the student attended every class logged
C2_Witness ==
    /\ run[1].pc = "done"
    /\ run[1].already_marked
    /\ \E u \in run[1].absentees :
          /\ u \in DOMAIN Student_Summaries
          /\ ec1_attended \in DOMAIN Student_Summaries[u]
          /\ Student_Summaries[u][ec1_attended] >= 1
          /\ Student_Summaries[u][ec1_attended]
                 = Cardinality(LogsOfSubject(sanitize_key(raw_ec1)))

\* C3: with several sessions submitting at once, no increment is lost: each
\* student's total is the number of committed first-time submissions whose roster
\* holds the student, and attended the number of those that marked the student
\* present.
FirstTimeCommits(u) ==
    {p \in FacultySessions :
        run[p].pc = "done" /\ ~run[p].already_marked /\ u \in run[p].s_list}

C3_NoLostIncrement ==
    \A u \in DOMAIN Students :
        /\ Student_Summaries[u][ec1_total] = Cardinality(FirstTimeCommits(u))
        /\ Student_Summaries[u][ec1_attended]
               = Cardinality({p \in FirstTimeCommits(u) : u \notin run[p].absentees})

\* two first-time submissions for different sessions are committed; a student is
\* counted twice and was absent in one of them
C3_Witness ==
    /\ run[1].pc = "done" /\ run[2].pc = "done"
    /\ ~run[1].already_marked /\ ~run[2].already_marked
    /\ run[1].session_id # run[2].session_id
    /\ \E u \in DOMAIN Students :
          /\ Student_Summaries[u][ec1_total] = 2
          /\ Student_Summaries[u][ec1_attended] = 1

\* C4: an upload without its required column is reported as an error and writes
\* nothing.
C4_MissingColumnReported ==
    [][/\ \A df \in CourseCSVs :
             (~HasColumn(CoursesColumns(df), t_subcode) /\ ProcessCoursesOf(df))
                 => (ui'.msg = "error" /\ UNCHANGED dbvars)
       /\ \A df \in StudentCSVs :
             (~HasColumn(StudentsColumns(df), t_usn) /\ ProcessStudentsOf(df))
                 => (ui'.msg = "error" /\ UNCHANGED dbvars)]_vars

\* C5: no store failure leaves a handler uncaught.
C5_NoFailureEscapes == ui.exc = FALSE

\* C10: a student who has neither a Students nor a Student_Summaries document gets
\* a summary again only in a step that also adds the Students document.
C10_DeletedStaysDeleted ==
    [][\A u \in {Upper(Strip(raw)) : raw \in RawUsns} :
          (u \notin DOMAIN Students /\ u \notin DOMAIN Student_Summaries
             /\ u \in DOMAIN Student_Summaries')
              => u \in DOMAIN Students']_vars

\* the credentials that the code accepts for the typed id and password
Accepted(typed_id, typed_pwd) ==
    \/ Strip(typed_id) = t_admin /\ Strip(typed_pwd) = t_admin123
    \/ /\ Strip(typed_id) # <<>>
       /\ HasTarget(Strip(typed_id))
       /\ Users[final_id(Strip(typed_id))].password = Strip(typed_pwd)

\* C6: auth_user goes from none to a user only by a Sign In whose password is the
\* admin password (for the id admin) or the password stored in the Users document
\* matched for the id; a Sign In with an empty id, an unknown id or another
\* password leaves it none; once set, it changes only to none (Logout).
C6_SignInOnlyWithPassword ==
    [][\A b \in Browsers :
          /\ (auth_user[b] = None /\ auth_user'[b] # None)
                => \E typed_id \in TypedIds, typed_pwd \in TypedPasswords :
                      /\ Accepted(typed_id, typed_pwd)
                      /\ \/ auth_user'[b] = AdminUser
                         \/ /\ HasTarget(Strip(typed_id))
                            /\ auth_user'[b].id = final_id(Strip(typed_id))
                            /\ auth_user'[b].password = Strip(typed_pwd)
          /\ \A typed_id \in TypedIds, typed_pwd \in TypedPasswords :
                (auth_user[b] = None /\ auth_user'[b] # None
                   /\ ~Accepted(typed_id, typed_pwd))
                    => ~SignInOf(b, typed_id, typed_pwd)
          /\ (auth_user[b] # None /\ auth_user'[b] # auth_user[b])
                => auth_user'[b] = None]_vars

\* a faculty user is signed in with a password that is not the default one, beside
\* a signed-in admin
C6_Witness ==
    \E b, a \in Browsers :
        /\ auth_user[a] = AdminUser
        /\ auth_user[b] # None
        /\ auth_user[b].role = t_Faculty
        /\ auth_user[b].password = t_secret

StatusRank(st) == CASE st = "Draft" -> 1 [] st = "Submitted" -> 2 [] st = "Approved" -> 3

\* C9: a paper's status only moves forward along Draft -> Submitted -> Approved,
\* one stage at a time: it never goes back, a paper is never removed, and it
\* becomes Approved only from Submitted.
C9_WorkflowForward ==
    [][\A k \in DOMAIN papers :
          /\ k \in DOMAIN papers'
          /\ StatusRank(papers'[k].status) >= StatusRank(papers[k].status)
          /\ (papers'[k].status = "Approved" /\ papers[k].status # "Approved")
                => papers[k].status = "Submitted"]_vars

\* one paper is approved, one submitted and one still a draft
C9_Witness ==
    /\ \E k \in DOMAIN papers : papers[k].status = "Approved"
    /\ \E k \in DOMAIN papers : papers[k].status = "Submitted"
    /\ \E k \in DOMAIN papers : papers[k].status = "Draft"

\* the students with a score for question q, and those of them with at least
\* 6 of the 10 marks
Scored(q) == {st \in DOMAIN attain.marks : q \in DOMAIN attain.marks[st]}

Scored6(q) == {st \in Scored(q) : attain.marks[st][q] >= 6}

\* the level the thresholds give k passing students out of n
Thresholds(k, n) ==
    IF 10 * k >= 7 * n THEN 3
    ELSE IF 10 * k >= 6 * n THEN 2
    ELSE IF 10 * k >= 5 * n THEN 1
    ELSE 0

\* the fixed dataset: one student with Q1 = 8 and Q2 = 4, another with Q1 = 5 and
\* Q2 = 9, and nobody else with a score for Q1 or Q2
Dataset ==
    /\ attain.pc = "done"
    /\ attain.result.status = "ok"
    /\ \E a, b \in DOMAIN attain.marks :
          /\ a # b
          /\ Scored("Q1") = {a, b} /\ Scored("Q2") = {a, b}
          /\ attain.marks[a]["Q1"] = 8 /\ attain.marks[a]["Q2"] = 4
          /\ attain.marks[b]["Q1"] = 5 /\ attain.marks[b]["Q2"] = 9

\* C7 as amended: each CO's level is the thresholds' level of its pass fraction
\* (>= 70% level 3, >= 60% level 2, >= 50% level 1, otherwise 0), a CO nobody has
\* a maximum for is left out, and the fixed dataset gives CO1 level 1 and CO2
\* level 1.
C7_LevelsFromPassFraction ==
    (attain.pc = "done" /\ attain.result.status = "ok") =>
        /\ \A i \in 1..2 :
              LET q == <<"Q1", "Q2">>[i]
                  co == <<"CO1", "CO2">>[i]
              IN  IF Scored(q) = {}
                  THEN co \notin DOMAIN attain.result.co
                  ELSE /\ co \in DOMAIN attain.result.co
                       /\ attain.result.co[co]
                              = Thresholds(Cardinality(Scored6(q)), Cardinality(Scored(q)))
        /\ DOMAIN attain.result.co \subseteq {"CO1", "CO2"}
        /\ Dataset => (attain.result.co["CO1"] = 1 /\ attain.result.co["CO2"] = 1)

\* the fixed dataset was calculated
C7_Witness == Dataset /\ attain.result.co = [CO1 |-> 1, CO2 |-> 1]

\* C7 as stated: the fixed dataset gives CO1 level 3 and CO2 level 1.
C7_DatasetAsStated ==
    Dataset => (attain.result.co["CO1"] = 3 /\ attain.result.co["CO2"] = 1)

\* the mark records without the entries whose question id is not in the pattern
WithoutUnmatched(marks, pattern) ==
    [st \in DOMAIN marks |->
        [q \in DOMAIN marks[st] \cap DOMAIN pattern |-> marks[st][q]]]

\* C8: a question id of a mark record that the approved paper's pattern does not
\* have raises no error and adds to no accumulator: the result is the one
\* calculated from the mark records with those entries removed.
C8_UnmatchedSkipped ==
    attain.pc = "done" =>
        /\ attain.result.status
               \in {"ok", "no marks found", "no approved question paper"}
        /\ attain.result = Attainment(WithoutUnmatched(attain.marks, attain.pattern),
                                      attain.approved, attain.pattern, Mapping)

\* a result with levels was calculated from records of which one has only the
\* unmatched question and another has it beside matched ones
C8_Witness ==
    /\ attain.pc = "done"
    /\ attain.result.status = "ok"
    /\ \E a, b \in DOMAIN attain.marks :
          /\ DOMAIN attain.marks[a] = {"Q9"}
          /\ DOMAIN attain.marks[b] = {"Q1", "Q2", "Q9"}
    /\ attain.result.co = [CO1 |-> 3, CO2 |-> 0]
    /\ attain.result.po = [PO1 |-> 300, PO2 |-> 100, PO3 |-> 0]

(***************************************************************************)
(* Ingestion next to marking: the courses are uploaded, the admin uploads  *)
(* and adds students and runs Sync/Fix All while one faculty session marks.*)
(***************************************************************************)
InitIngest ==
    /\ Courses = CourseRows(CoursesColumns([cols |-> CoursesHeader]), ConcCourses,
                            [courses |-> <<>>, users |-> <<>>, count |-> 0]).courses
    /\ Users = CourseRows(CoursesColumns([cols |-> CoursesHeader]), ConcCourses,
                          [courses |-> <<>>, users |-> <<>>, count |-> 0]).users
    /\ Students = <<>>
    /\ Student_Summaries = <<>>
    /\ Class_Sessions = <<>>
    /\ cache = <<>>
    /\ run = [p \in FacultySessions |-> Idle]
    /\ auth_user = <<>>
    /\ ui = Shown("none")
    /\ papers = NoPapers
    /\ attain = NoAttain

NextIngest ==
    \/ ProcessStudents
    \/ AddStudentManual
    \/ AdminForceSync
    \/ CacheExpire
    \/ Submit
    \/ SubmitCommit(1)

SpecIngest == InitIngest /\ [][NextIngest]_vars

EndsWith(s, suffix) ==
    /\ Len(s) >= Len(suffix)
    /\ SubSeq(s, Len(s) - Len(suffix) + 1, Len(s)) = suffix

\* the 'total' and 'attended' fields of a summary document
CounterFields(doc) ==
    {f \in DOMAIN doc : EndsWith(f, <<".">> \o t_total) \/ EndsWith(f, <<".">> \o t_attended)}

\* C11: a students upload, a manual add and Sync/Fix All leave every 'total' and
\* 'attended' counter that is stored with the value it had; the counters they add
\* start at 0.
C11_IngestionKeepsCounters ==
    [][(ProcessStudents \/ AddStudentManual \/ AdminForceSync) =>
          /\ \A u \in DOMAIN Student_Summaries :
                /\ u \in DOMAIN Student_Summaries'
                /\ \A f \in CounterFields(Student_Summaries[u]) :
                      /\ f \in DOMAIN Student_Summaries'[u]
                      /\ Student_Summaries'[u][f] = Student_Summaries[u][f]
          /\ \A u \in DOMAIN Student_Summaries' :
                \A f \in CounterFields(Student_Summaries'[u]) :
                    (u \notin DOMAIN Student_Summaries \/ f \notin DOMAIN Student_Summaries[u])
                        => Student_Summaries'[u][f] = 0]_vars

\* the session has no submission pending and the page shows the success of an
\* upload, a manual add or a sync that ran after a class was counted: a student's
\* total is 1 or more
C11_Witness ==
    /\ run[1].pc = "idle"
    /\ ui = Shown("success")
    /\ \E u \in DOMAIN Student_Summaries :
          /\ ec1_total \in DOMAIN Student_Summaries[u]
          /\ Student_Summaries[u][ec1_total] >= 1
          /\ ec1_attended \in DOMAIN Student_Summaries[u]
          /\ Student_Summaries[u][ec1_attended] >= 1

\* C12: for one session (date, subject code, section, period) the counters are
\* incremented by one submission at most, whatever the interleaving: no two
\* committed runs of the same session both found it unmarked, and no student's
\* total counts more classes than there are session logs.
C12_CountedOncePerSession ==
    /\ \A p, q \in FacultySessions :
          (/\ run[p].pc = "done" /\ ~run[p].already_marked
           /\ run[q].pc = "done" /\ ~run[q].already_marked
           /\ run[p].session_id = run[q].session_id)
              => p = q
    /\ \A u \in DOMAIN Student_Summaries :
          ec1_total \in DOMAIN Student_Summaries[u] =>
              Student_Summaries[u][ec1_total] <= Cardinality(DOMAIN Class_Sessions)

(***************************************************************************)
(* What the student portal and the consolidated report compute from a      *)
(* summary document: the fields grouped by the text before the dot.        *)
(***************************************************************************)
\* k.split('.')[0] of the field names that hold a dot
SubjectsOf(data) ==
    LET HasDot(k) == \E i \in 1..Len(k) : k[i] = "."
        FirstDot(k) == CHOOSE i \in 1..Len(k) :
                           k[i] = "." /\ \A j \in 1..(i - 1) : k[j] # "."
    IN  {SubSeq(k, 1, FirstDot(k) - 1) : k \in {f \in DOMAIN data : HasDot(f)}}

\* s.get(field, 0) of the subject's group
Stat(data, code, field) ==
    IF Dot(code, field) \in DOMAIN data THEN data[Dot(code, field)] ELSE 0

\* 100.0 if t == 0 else a / t * 100, in whole percent
Percentage(t, a) == IF t = 0 THEN 100 ELSE (a * 100) \div t

\* C13: in every state, for every student and subject of Student_Summaries,
\* 0 <= attended <= total, and the percentage shown is between 0 and 100.
C13_AttendedWithinTotal ==
    \A u \in DOMAIN Student_Summaries :
        \A code \in SubjectsOf(Student_Summaries[u]) :
            LET t == Stat(Student_Summaries[u], code, t_total)
                a == Stat(Student_Summaries[u], code, t_attended)
            IN  /\ 0 <= a
                /\ a <= t
                /\ Percentage(t, a) \in 0..100

\* after an overwrite was committed a student has two classes counted and one
\* attended: 50 percent
C13_Witness ==
    /\ run[1].pc = "done"
    /\ run[1].already_marked
    /\ \E u \in DOMAIN Student_Summaries :
          /\ SubjectsOf(Student_Summaries[u]) # {}
          /\ Stat(Student_Summaries[u], sanitize_key(raw_ec1), t_total) = 2
          /\ Stat(Student_Summaries[u], sanitize_key(raw_ec1), t_attended) = 1
          /\ Percentage(2, 1) = 50

(***************************************************************************)
(* Two courses with the same subject code and section in different         *)
(* semesters, each with its own faculty and its own student, as left by a  *)
(* courses upload and a students upload; the faculty sessions mark them.   *)
(***************************************************************************)
TwoCourses == << << <<"3">>, <<"a">>, raw_ec1, <<"R","a","o">> >>,
                 << <<"5">>, <<"a">>, raw_ec1, <<"S","e","n">> >> >>

TwoStudents == << <<RawUsnList[1], <<"3">>, <<"a">>>>,
                  <<RawUsnList[2], <<"5">>, <<"a">>>> >>

InitTwo ==
    /\ Courses = CourseRows(CoursesColumns([cols |-> CoursesHeader]), TwoCourses,
                            [courses |-> <<>>, users |-> <<>>, count |-> 0]).courses
    /\ Users = CourseRows(CoursesColumns([cols |-> CoursesHeader]), TwoCourses,
                          [courses |-> <<>>, users |-> <<>>, count |-> 0]).users
    /\ Students = StudentRows(StudentsColumns([cols |-> StudentsHeader]), TwoStudents,
                      [students |-> <<>>, summaries |-> <<>>, count |-> 0]).students
    /\ Student_Summaries =
           StudentRows(StudentsColumns([cols |-> StudentsHeader]), TwoStudents,
               [students |-> <<>>, summaries |-> <<>>, count |-> 0]).summaries
    /\ Class_Sessions = <<>>
    /\ cache = <<>>
    /\ run = [p \in FacultySessions |-> Idle]
    /\ auth_user = <<>>
    /\ ui = Shown("none")
    /\ papers = NoPapers
    /\ attain = NoAttain

SpecTwo == InitTwo /\ [][NextConc]_vars

\* the composite identity of a course: the parts of its document id
CourseIdentity(course) ==
    <<course.ay, course.dept, course.sem, course.section, course.subcode>>

Submitted(p) == run[p].pc \in {"commit", "done"}

\* C14: courses of different identity are marked independently: their submissions
\* never share a session log, and a course appears already marked only when a
\* class of it was counted for its own students.
C14_CoursesMarkedIndependently ==
    /\ \A p, q \in FacultySessions :
          (/\ Submitted(p) /\ Submitted(q)
           /\ CourseIdentity(run[p].course) # CourseIdentity(run[q].course))
              => run[p].session_id # run[q].session_id
    /\ \A p \in FacultySessions :
          (Submitted(p) /\ run[p].already_marked) =>
              \E u \in run[p].s_list :
                  Stat(Student_Summaries[u], sanitize_key(run[p].course.subcode), t_total) >= 1

\* C15: a courses upload leaves the stored password of every user that exists as
\* it was; only users the upload creates get the default password.
C15_UploadKeepsPasswords ==
    [][AdminProcessCourses =>
          /\ \A u \in DOMAIN Users :
                /\ u \in DOMAIN Users'
                /\ Users'[u].password = Users[u].password
          /\ \A u \in DOMAIN Users' \ DOMAIN Users :
                Users'[u].password = t_password123]_vars
====
